---- MODULE Spec2Model ----
(***************************************************************************)
(* A model of image_view.py: the 16-bit PGM loader (load_pgm), the two     *)
(* gradient mappers, load_image, the Viewer and the event loop of          *)
(* run_user_interface.  Files are sequences of byte values (0..255).       *)
(***************************************************************************)
EXTENDS Integers, Sequences, FiniteSets, TLC

VARIABLES
    input,          \* how the file handed to load_image was put together
    file_contents,  \* load_pgm: the bytes read from the file
    little_endian,  \* load_pgm: the little_endian keyword argument
    byteorder,      \* sys.byteorder of the host
    outcome,        \* what load_image did with file_contents
    called,         \* FALSE until load_image has been called
    sample,         \* a gradient's input: one value of data
    maxval,         \* a gradient's max_value
    mapper,         \* the gradient that was applied, "none" before
    rgb,            \* the three values the gradient yielded
    files,          \* args.files, each file by its contents
    index,          \* run_user_interface: index
    scale,          \* Viewer.__scale
    image_surface,  \* Viewer.__image_surface
    surface,        \* Viewer.__surface: the window, by its size
    screen,         \* the image the window shows
    pc,             \* where run_user_interface is
    last_draw,      \* what the last call of Viewer.draw met
    loads           \* what load_image does with each file that can be in files

pgm_vars == <<input, file_contents, little_endian, byteorder, outcome, called>>
gradient_vars == <<sample, maxval, mapper, rgb>>
ui_vars == <<files, index, scale, image_surface, surface, screen, pc, last_draw,
            loads>>

vars == <<pgm_vars, gradient_vars, ui_vars>>

(***************************************************************************)
(* Bytes and byte classes of MAGIC_REGEX and NUMBER_REGEX.                 *)
(***************************************************************************)
WHITESPACE == {9, 10, 11, 12, 13, 32}      \* \s of a bytes pattern
DIGITS == 48..57                           \* \d of a bytes pattern
LINE_END == {13, 10}                       \* [\r\n]
NOT_NEWLINE == (0..255) \ {10}             \* . (no DOTALL)
HASH == {35}                               \* #
LETTER_P == {80}                           \* P
TWO_OR_FIVE == {50, 53}                    \* [25]

At(s, i) == IF i >= 1 /\ i <= Len(s) THEN s[i] ELSE -1

\* The number of consecutive bytes of s, from position i on, that are in class.
RECURSIVE RunLen(_, _, _)
RunLen(s, i, class) ==
    IF At(s, i) \in class THEN 1 + RunLen(s, i + 1, class) ELSE 0

(***************************************************************************)
(* MAGIC_REGEX + 3 * NUMBER_REGEX as a backtracking matcher.  The pattern  *)
(* is a sequence of 16 elements; element e is matched at position pos and  *)
(* the rest of the pattern after it.  Greedy quantifiers try the longest   *)
(* run first and give back one byte at a time, as the re module does.      *)
(***************************************************************************)
MAGIC_REGEX == <<"ws", "magic", "ws", "comments">>
NUMBER_REGEX == <<"ws", "digits", "ws", "comments">>
HEADER_REGEX == MAGIC_REGEX \o NUMBER_REGEX \o NUMBER_REGEX \o NUMBER_REGEX

NoMatch == [end |-> -1, groups |-> <<>>]

RECURSIVE Match(_, _, _, _)
RECURSIVE Star(_, _, _, _, _)
RECURSIVE Plus(_, _, _, _, _)
RECURSIVE Comments(_, _, _, _)
RECURSIVE CommentBody(_, _, _, _, _)

\* \s* at pos, taking k bytes, then the rest; on failure k - 1 bytes.
Star(s, e, pos, k, groups) ==
    IF k < 0 THEN NoMatch
    ELSE LET r == Match(s, e + 1, pos + k, groups)
         IN  IF r.end >= 0 THEN r ELSE Star(s, e, pos, k - 1, groups)

\* (\d+) at pos, taking k >= 1 bytes as a group, then the rest.
Plus(s, e, pos, k, groups) ==
    IF k < 1 THEN NoMatch
    ELSE LET r == Match(s, e + 1, pos + k,
                        Append(groups, SubSeq(s, pos, pos + k - 1)))
         IN  IF r.end >= 0 THEN r ELSE Plus(s, e, pos, k - 1, groups)

\* One iteration #.*[\r\n] at pos with .* taking j bytes, then more
\* iterations; on failure .* takes j - 1 bytes.
CommentBody(s, e, pos, j, groups) ==
    IF j < 0 THEN NoMatch
    ELSE LET r == IF At(s, pos + 1 + j) \in LINE_END
                  THEN Comments(s, e, pos + j + 2, groups)
                  ELSE NoMatch
         IN  IF r.end >= 0 THEN r ELSE CommentBody(s, e, pos, j - 1, groups)

\* (?:#.*[\r\n])* at pos: one more iteration if that leads to a match,
\* otherwise none.
Comments(s, e, pos, groups) ==
    IF At(s, pos) \in HASH
    THEN LET r == CommentBody(s, e, pos, RunLen(s, pos + 1, NOT_NEWLINE), groups)
         IN  IF r.end >= 0 THEN r ELSE Match(s, e + 1, pos, groups)
    ELSE Match(s, e + 1, pos, groups)

Match(s, e, pos, groups) ==
    IF e > Len(HEADER_REGEX) THEN [end |-> pos - 1, groups |-> groups]
    ELSE CASE HEADER_REGEX[e] = "ws" ->
                Star(s, e, pos, RunLen(s, pos, WHITESPACE), groups)
           [] HEADER_REGEX[e] = "magic" ->
                IF At(s, pos) \in LETTER_P /\ At(s, pos + 1) \in TWO_OR_FIVE
                THEN Match(s, e + 1, pos + 2, Append(groups, SubSeq(s, pos, pos + 1)))
                ELSE NoMatch
           [] HEADER_REGEX[e] = "digits" ->
                Plus(s, e, pos, RunLen(s, pos, DIGITS), groups)
           [] HEADER_REGEX[e] = "comments" ->
                Comments(s, e, pos, groups)

\* re.search: the match at the leftmost position that has one.
RECURSIVE SearchFrom(_, _)
SearchFrom(s, start) ==
    IF start > Len(s) + 1 THEN NoMatch
    ELSE LET r == Match(s, 1, start, <<>>)
         IN  IF r.end >= 0 THEN r ELSE SearchFrom(s, start + 1)

re_search(s) == SearchFrom(s, 1)

(***************************************************************************)
(* The gradient mappers.  A gradient yields three bytes per sample.        *)
(***************************************************************************)
RECURSIVE grayscale_gradient(_, _)
grayscale_gradient(data, max_value) ==
    IF data = <<>> THEN <<>>
    ELSE LET normalized == (255 * Head(data)) \div max_value
         IN  <<normalized, normalized, normalized>>
                 \o grayscale_gradient(Tail(data), max_value)

RECURSIVE Gcd(_, _)
Gcd(a, b) == IF b = 0 THEN a ELSE Gcd(b, a % b)

RECURSIVE IsPowerOfTwo(_)
IsPowerOfTwo(n) == n = 1 \/ (n > 1 /\ n % 2 = 0 /\ IsPowerOfTwo(n \div 2))

\* Whether the float value / middle is the quotient itself: middle, half of
\* max_value, is exact, and the quotient 2*value/max_value is a float when
\* its denominator in lowest terms is a power of two.
QuotientIsExact(value, max_value) ==
    IsPowerOfTwo(max_value \div Gcd(2 * value, max_value))

\* A channel that is not held at zero from below.
ChannelUnclamped(num, max_value, exact) == {num \div max_value}

\* int(max(0, x)) for the float x computed for num / max_value.  A rounded
\* quotient leaves x beside num / max_value: when that is a whole number, x
\* may lie just below it, and int() then gives one less.
Channel(num, max_value, exact) ==
    IF num <= 0 THEN {0}
    ELSE IF exact \/ num % max_value # 0 THEN {num \div max_value}
    ELSE {(num \div max_value) - 1, num \div max_value}

\* The triples rainbow_gradient([value], max_value) can yield.
rainbow_gradient(value, max_value) ==
    LET exact == QuotientIsExact(value, max_value)
    IN  {<<r, 255 - b - r, b>> :
            r \in Channel(255 * (2 * value - max_value), max_value, exact),
            b \in Channel(255 * (max_value - 2 * value), max_value, exact)}

(***************************************************************************)
(* load_pgm.                                                               *)
(***************************************************************************)
RECURSIVE int(_)
\* int() of a string of decimal digits.
int(digits) ==
    IF digits = <<>> THEN 0
    ELSE 10 * int(SubSeq(digits, 1, Len(digits) - 1)) + (digits[Len(digits)] - 48)

\* Whether int(token) succeeds: an optional sign, then decimal digits.
IsIntLiteral(token) ==
    LET unsigned == IF token # <<>> /\ token[1] \in {43, 45} THEN Tail(token) ELSE token
    IN  unsigned # <<>> /\ \A i \in 1..Len(unsigned) : unsigned[i] \in DIGITS

\* int(token) of a token that IsIntLiteral.
int_token(token) ==
    IF token[1] = 45 THEN 0 - int(Tail(token))
    ELSE IF token[1] = 43 THEN int(Tail(token))
    ELSE int(token)

\* bytes.split(): the maximal runs of non-whitespace bytes, in order.
RECURSIVE split(_)
split(raw_data) ==
    IF raw_data = <<>> THEN <<>>
    ELSE IF raw_data[1] \in WHITESPACE THEN split(Tail(raw_data))
    ELSE LET k == RunLen(raw_data, 1, (0..255) \ WHITESPACE)
         IN  <<SubSeq(raw_data, 1, k)>> \o split(SubSeq(raw_data, k + 1, Len(raw_data)))

\* array.array('H') filled from an even number of bytes: each item is two
\* bytes in the host's byte order.
RECURSIVE array_H(_, _)
array_H(bytes, host) ==
    IF Len(bytes) < 2 THEN <<>>
    ELSE <<IF host = "little" THEN bytes[1] + 256 * bytes[2]
                              ELSE 256 * bytes[1] + bytes[2]>>
             \o array_H(SubSeq(bytes, 3, Len(bytes)), host)

\* array.byteswap() of 16-bit items.
byteswap(byte_array) ==
    [i \in 1..Len(byte_array) |->
        256 * (byte_array[i] % 256) + (byte_array[i] \div 256)]

\* A load_pgm that swaps on every host, whatever little_endian says.
NeedsByteswapAlways(host, le) == TRUE

\* Line 108: whether load_pgm swaps the bytes of the items it read.
NeedsByteswap(host, le) == host # (IF le THEN "little" ELSE "big")

\* A load_pgm that takes a max_value of 255 for 16 bits.
IsEightBitBelow(max_value) == max_value < 255

\* Line 98: whether load_pgm leaves the file to pygame.
IsEightBit(max_value) == max_value <= 255

\* Line 106: the bytes of raw_data that are read as samples.
SampleBytes(raw_data, size) ==
    SubSeq(raw_data, 1, IF 2 * size[1] * size[2] < Len(raw_data)
                        THEN 2 * size[1] * size[2] ELSE Len(raw_data))

\* A frombuffer that takes a buffer shorter than the image.
FrombufferAcceptsShort(data, size) == Len(data) <= 3 * size[1] * size[2]

\* pygame.image.frombuffer(data, size, 'RGB') raises ValueError unless the
\* buffer holds exactly three bytes per pixel.
FrombufferAccepts(data, size) == Len(data) = 3 * size[1] * size[2]

\* What load_pgm gives back, by how it ended.
PgmResult(kind, m, raw_data, mapper_called, samples, data) ==
    [kind |-> kind,
     matched |-> m.end >= 0,
     magic_id |-> IF m.end >= 0 THEN m.groups[1] ELSE <<>>,
     size |-> IF m.end >= 0 THEN <<int(m.groups[2]), int(m.groups[3])>> ELSE <<0, 0>>,
     max_value |-> IF m.end >= 0 THEN int(m.groups[4]) ELSE 0,
     raw_data |-> raw_data,
     mapper_called |-> mapper_called,
     samples |-> samples,
     data |-> data]

\* Lines 115-116: the mapped bytes as a bytearray, then as a surface.
MapAndWrap(m, raw_data, size, max_value, byte_array) ==
    LET data == grayscale_gradient(byte_array, max_value)
    IN  IF \E i \in 1..Len(data) : data[i] \notin 0..255
        THEN PgmResult("ValueError", m, raw_data, TRUE, byte_array, <<>>)
        ELSE IF ~FrombufferAccepts(data, size)
        THEN PgmResult("ValueError", m, raw_data, TRUE, byte_array, data)
        ELSE PgmResult("Surface", m, raw_data, TRUE, byte_array, data)

\* load_pgm(filename, little_endian=le) on a host of byte order host, the
\* file holding contents; rgb_mapper is its default, grayscale_gradient.
load_pgm(contents, le, host) ==
    LET m == re_search(contents)
    IN  IF m.end < 0 THEN PgmResult("None", m, <<>>, FALSE, <<>>, <<>>)
        ELSE
        LET magic_id == m.groups[1]
            size == <<int(m.groups[2]), int(m.groups[3])>>
            max_value == int(m.groups[4])
            raw_data == SubSeq(contents, m.end + 1, Len(contents))
        IN  IF IsEightBit(max_value)
            THEN PgmResult("None", m, raw_data, FALSE, <<>>, <<>>)
            ELSE IF magic_id = <<80, 50>>
            THEN LET tokens == split(raw_data)
                 IN  IF \E i \in 1..Len(tokens) : ~IsIntLiteral(tokens[i])
                     THEN PgmResult("ValueError", m, raw_data, FALSE, <<>>, <<>>)
                     ELSE MapAndWrap(m, raw_data, size, max_value,
                                     [i \in 1..Len(tokens) |-> int_token(tokens[i])])
            ELSE LET bytes == SampleBytes(raw_data, size)
                 IN  IF Len(bytes) % 2 # 0
                     THEN PgmResult("ValueError", m, raw_data, FALSE, <<>>, <<>>)
                     ELSE LET byte_array == array_H(bytes, host)
                          IN  MapAndWrap(m, raw_data, size, max_value,
                                         IF NeedsByteswap(host, le)
                                         THEN byteswap(byte_array)
                                         ELSE byte_array)

(***************************************************************************)
(* The files load_image is called on.  A file is put together from a       *)
(* prefix, a magic token, three separators, the three header numbers, one  *)
(* newline and a body.                                                     *)
(***************************************************************************)
MaxBody == 4        \* the longest body, in bytes
MaxSep == 5         \* the longest separator between two header tokens

RECURSIVE SeqsOfLen(_, _)
SeqsOfLen(S, n) ==
    IF n = 0 THEN {<<>>}
    ELSE {Append(s, x) : s \in SeqsOfLen(S, n - 1), x \in S}

SeqsUpTo(S, n) == UNION {SeqsOfLen(S, k) : k \in 0..n}

RECURSIVE Decimal(_)
Decimal(n) == IF n < 10 THEN <<48 + n>> ELSE Append(Decimal(n \div 10), 48 + (n % 10))

Assemble(in) ==
    in.prefix \o in.magic \o in.seps[1] \o Decimal(in.size[1]) \o in.seps[2]
        \o Decimal(in.size[2]) \o in.seps[3] \o Decimal(in.max_value) \o <<10>> \o in.body

\* Whether sep, from byte i on, is whitespace and whole comments only.
RECURSIVE SepOK(_, _, _)
SepOK(sep, i, in_comment) ==
    IF i > Len(sep) THEN ~in_comment
    ELSE IF in_comment THEN SepOK(sep, i + 1, sep[i] # 10)
    ELSE IF sep[i] \in WHITESPACE THEN SepOK(sep, i + 1, FALSE)
    ELSE IF sep[i] \in HASH THEN SepOK(sep, i + 1, TRUE)
    ELSE FALSE

\* sep without its comments: each '#' and what follows it, up to the end of
\* its line, is removed and the line end kept.
RECURSIVE StripComments(_, _, _)
StripComments(sep, i, in_comment) ==
    IF i > Len(sep) THEN <<>>
    ELSE IF in_comment
    THEN (IF sep[i] = 10 THEN <<10>> ELSE <<>>) \o StripComments(sep, i + 1, sep[i] # 10)
    ELSE IF sep[i] \in HASH THEN StripComments(sep, i + 1, TRUE)
    ELSE <<sep[i]>> \o StripComments(sep, i + 1, FALSE)

Stripped(in) ==
    [in EXCEPT !.seps = [k \in 1..3 |-> StripComments(in.seps[k], 1, FALSE)]]

P2 == <<80, 50>>
P5 == <<80, 53>>
PlainSeps == <<<<10>>, <<32>>, <<10>>>>
Dims == {<<1, 1>>, <<2, 1>>, <<1, 2>>}
\* space, newline, '#' and '1' (a comment's text)
Separators == {sep \in SeqsUpTo({32, 10, 35, 49}, MaxSep) : sep # <<>> /\ SepOK(sep, 1, FALSE)}
\* NUL, newline, '#' and '1'
Bodies == SeqsUpTo({0, 10, 35, 49}, MaxBody)
ExactBody(magic) == IF magic = P2 THEN <<49>> ELSE <<0, 49>>
\* nothing, blank, a word, a word glued to the magic token
Prefixes == {<<>>, <<10>>, <<120, 32>>, <<120>>}
\* P2, P5, and P6 (a magic token of another Netpbm format)
Magics == {P2, P5, <<80, 54>>}

\* Files that differ in their bodies.
BodyInputs ==
    {[prefix |-> <<>>, magic |-> magic, seps |-> PlainSeps, size |-> size,
      max_value |-> max_value, body |-> body] :
        magic \in {P2, P5}, size \in Dims, max_value \in {256, 65535}, body \in Bodies}

\* Files that differ in one separator of the header.
HeaderInputs ==
    {[prefix |-> <<>>, magic |-> magic, seps |-> [PlainSeps EXCEPT ![k] = sep],
      size |-> <<1, 1>>, max_value |-> max_value, body |-> ExactBody(magic)] :
        magic \in {P2, P5}, k \in 1..3, sep \in Separators, max_value \in {255, 256}}

\* Files that differ in what comes first.
PrefixInputs ==
    {[prefix |-> prefix, magic |-> magic, seps |-> PlainSeps,
      size |-> <<1, 1>>, max_value |-> max_value, body |-> ExactBody(magic)] :
        prefix \in Prefixes, magic \in Magics, max_value \in {1, 255, 256}}

NotCalled == [pgm |-> PgmResult("None", NoMatch, <<>>, FALSE, <<>>, <<>>),
              generic_called |-> FALSE, result |-> "none"]

NoSurface == [kind |-> "none", of |-> 0, size |-> <<0, 0>>, scaled |-> 1]
NoDraw == [load |-> "none", before |-> 1, limit |-> 1, tries |-> 0]

UIIdle ==
    /\ files = <<>> /\ index = 0 /\ scale = 1 /\ image_surface = NoSurface
    /\ surface = <<0, 0>> /\ screen = NoSurface /\ pc = "idle" /\ last_draw = NoDraw
    /\ loads = {}

PgmIdle ==
    /\ input = <<>> /\ file_contents = <<>> /\ outcome = NotCalled /\ called = FALSE

GradientIdle ==
    /\ sample = 0 /\ maxval = 1 /\ mapper = "none" /\ rgb = <<>>

InitPgm ==
    /\ GradientIdle
    /\ UIIdle
    /\ \/ /\ input \in BodyInputs
          /\ little_endian \in BOOLEAN
          /\ byteorder \in {"little", "big"}
       \/ /\ input \in HeaderInputs \cup PrefixInputs
          /\ little_endian = FALSE
          /\ byteorder = "little"
    /\ file_contents = Assemble(input)
    /\ outcome = NotCalled
    /\ called = FALSE

\* load_image(filename, little_endian=little_endian): load_pgm, and
\* pygame.image.load when load_pgm returned None.  pygame accepts the file
\* (generic_ok) or raises pygame.error, which load_image turns into
\* SystemExit; a ValueError of load_pgm is not caught.
load_image(contents, le, host, generic_ok) ==
    LET pgm == load_pgm(contents, le, host)
    IN  [pgm |-> pgm,
         generic_called |-> pgm.kind = "None",
         result |-> IF pgm.kind = "Surface" THEN "pgm_surface"
                    ELSE IF pgm.kind = "ValueError" THEN "ValueError"
                    ELSE IF generic_ok THEN "generic_surface"
                    ELSE "SystemExit"]

CallLoadImage ==
    /\ ~called
    /\ called' = TRUE
    /\ \E generic_ok \in BOOLEAN :
           outcome' = load_image(file_contents, little_endian, byteorder, generic_ok)
    /\ UNCHANGED <<input, file_contents, little_endian, byteorder>>
    /\ UNCHANGED <<gradient_vars, ui_vars>>

NextPgm == CallLoadImage

PgmSpec == InitPgm /\ [][NextPgm]_vars

(***************************************************************************)
(* The gradients on their own: one sample and one max_value.               *)
(***************************************************************************)
MaxMaxValue == 24   \* the largest max_value a gradient is applied with

InitGradient ==
    /\ PgmIdle /\ little_endian = FALSE /\ byteorder = "little"
    /\ UIIdle
    /\ maxval \in 1..MaxMaxValue
    /\ sample \in 0..maxval
    /\ mapper = "none"
    /\ rgb = <<>>

ApplyGrayscale ==
    /\ mapper = "none"
    /\ mapper' = "grayscale"
    /\ rgb' = grayscale_gradient(<<sample>>, maxval)
    /\ UNCHANGED <<sample, maxval, pgm_vars, ui_vars>>

ApplyRainbow ==
    /\ mapper = "none"
    /\ mapper' = "rainbow"
    /\ rgb' \in rainbow_gradient(sample, maxval)
    /\ UNCHANGED <<sample, maxval, pgm_vars, ui_vars>>

NextGradient == ApplyGrayscale \/ ApplyRainbow

GradientSpec == InitGradient /\ [][NextGradient]_vars

(***************************************************************************)
(* The Viewer and run_user_interface, with colorize and little_endian at   *)
(* their defaults.                                                         *)
(***************************************************************************)
MaxFiles == 2       \* the most files on the command line

MAX_SCALE == 1024
MIN_SCALE == 1

Max(a, b) == IF a > b THEN a ELSE b
Min(a, b) == IF a < b THEN a ELSE b

scale_up(s) == Min(MAX_SCALE, s * 2)
scale_down(s) == Max(MIN_SCALE, s \div 2)
scale_default == MIN_SCALE

\* The scales a Viewer can be at.
RECURSIVE ScalesFrom(_)
ScalesFrom(s) == IF s >= MAX_SCALE THEN {s} ELSE {s} \cup ScalesFrom(s * 2)
Scales == ScalesFrom(MIN_SCALE)

\* The size of a surface pygame.image.load returns (that of test/python.png).
GenericSize == <<50, 65>>

\* The surface load_image returns, for the file at position idx.
Loaded(r, idx) ==
    IF r.result = "pgm_surface"
    THEN [kind |-> "pgm", of |-> idx, size |-> r.pgm.size, scaled |-> 1]
    ELSE [kind |-> "generic", of |-> idx, size |-> GenericSize, scaled |-> 1]

\* _scale(image_surface, scale), when pygame.transform.scale succeeds.
Scaled(img, s) ==
    [img EXCEPT !.size = <<s * img.size[1], s * img.size[2]>>, !.scaled = s]

\* Whether pygame.transform.scale succeeds at scale s: it raises
\* pygame.error when the scaled surface is too large, here above limit.
ScaleSucceeds(s, limit) == s <= limit

\* A draw that gives up scaling at the first pygame.error and keeps its scale.
DrawLoopKeepsScale(s, limit, tries) == [scale |-> s, tries |-> tries]

\* Lines 184-190: scale down until scaling succeeds or the scale is 1.
RECURSIVE DrawLoop(_, _, _)
DrawLoop(s, limit, tries) ==
    IF s > 1
    THEN IF ScaleSucceeds(s, limit) THEN [scale |-> s, tries |-> tries]
         ELSE DrawLoop(scale_down(s), limit, tries + 1)
    ELSE [scale |-> s, tries |-> tries]

\* A load_image whose caller goes on after a ValueError.
AbortsOnSystemExitOnly(result) == result = "SystemExit"

\* Whether load_image raised: SystemExit (line 142) or the ValueError of
\* load_pgm; neither draw nor run_user_interface catches either.
Aborts(result) == result \in {"SystemExit", "ValueError"}

\* A 16-bit P5 file of one pixel, an 8-bit one, and a 16-bit one cut short.
Pgm16 == Assemble([prefix |-> <<>>, magic |-> P5, seps |-> PlainSeps,
                   size |-> <<1, 1>>, max_value |-> 256, body |-> <<0, 49>>])
Pgm8 == Assemble([prefix |-> <<>>, magic |-> P5, seps |-> PlainSeps,
                  size |-> <<1, 1>>, max_value |-> 255, body |-> <<49>>])
PgmCut == Assemble([prefix |-> <<>>, magic |-> P5, seps |-> PlainSeps,
                    size |-> <<1, 1>>, max_value |-> 256, body |-> <<49>>])
SampleFiles == {Pgm16, Pgm8, PgmCut}

\* load_image on each of the files, by whether pygame accepts the file: the
\* files do not change while the viewer runs.
LoadImageTable ==
    {<<f, generic_ok, load_image(f, FALSE, "little", generic_ok)>> :
        f \in SampleFiles, generic_ok \in BOOLEAN}

LoadImageOf(f, generic_ok) ==
    (CHOOSE row \in loads : row[1] = f /\ row[2] = generic_ok)[3]

\* Viewer.draw(args.files[idx]) with the scale at sc.
draw(idx, sc, generic_ok, limit) ==
    LET r == LoadImageOf(files[idx], generic_ok)
    IN  IF Aborts(r.result)
        THEN /\ pc' = "exited"
             /\ scale' = sc
             /\ last_draw' = [load |-> r.result, before |-> sc, limit |-> 1, tries |-> 0]
             /\ UNCHANGED <<image_surface, surface, screen>>
        ELSE LET loop == DrawLoop(sc, limit, 0)
                 img == IF loop.scale > 1 THEN Scaled(Loaded(r, idx), loop.scale)
                                          ELSE Loaded(r, idx)
             IN  /\ pc' = "wait"
                 /\ scale' = loop.scale
                 /\ image_surface' = img
                 /\ surface' = IF surface = <<0, 0>>
                               THEN <<Max(512, img.size[1]), Max(256, img.size[2])>>
                               ELSE surface
                 /\ screen' = img
                 /\ last_draw' = [load |-> r.result, before |-> sc,
                                  limit |-> limit, tries |-> loop.tries]

FileLists == UNION {SeqsOfLen(SampleFiles, n) : n \in 1..MaxFiles}

Init ==
    /\ PgmIdle /\ little_endian = FALSE /\ byteorder = "little"
    /\ GradientIdle
    /\ files \in FileLists
    /\ index = 1
    /\ scale = 1
    /\ image_surface = NoSurface
    /\ surface = <<0, 0>>
    /\ screen = NoSurface
    /\ pc = "start"
    /\ last_draw = NoDraw
    /\ loads = LoadImageTable

UIFrame == UNCHANGED <<pgm_vars, gradient_vars, files, loads>>

\* Line 245: the first draw.
FirstDraw ==
    /\ pc = "start"
    /\ \E generic_ok \in BOOLEAN, limit \in Scales : draw(index, scale, generic_ok, limit)
    /\ UNCHANGED index
    /\ UIFrame

\* pygame.QUIT, or a key among Escape and q.
Quit ==
    /\ pc = "wait"
    /\ pc' = "quit"
    /\ UNCHANGED <<index, scale, image_surface, surface, screen, last_draw>>
    /\ UIFrame

\* pygame.VIDEORESIZE: Viewer.resize, which draws the window again.
VideoResize ==
    /\ pc = "wait"
    /\ surface' = <<640, 480>>
    /\ screen' = image_surface
    /\ UNCHANGED <<index, scale, image_surface, pc, last_draw>>
    /\ UIFrame

\* The keys run_user_interface tells apart, but for Escape and q.
Keys == {"previous", "next", "scale_up", "scale_down", "scale_default", "other"}

\* Lines 257-262: index after a key; Left, Up and Backspace go back, Right,
\* Down and Space go on.
IndexAfter(key) ==
    IF key = "previous" THEN Max(1, index - 1)
    ELSE IF key = "next" THEN Min(Len(files), index + 1)
    ELSE index

\* Lines 263-270: the scale after a key; + and = scale up, - and _ scale
\* down, 0 is the default scale.
ScaleAfter(key) ==
    IF key = "scale_up" THEN scale_up(scale)
    ELSE IF key = "scale_down" THEN scale_down(scale)
    ELSE IF key = "scale_default" THEN scale_default
    ELSE scale

\* pygame.KEYDOWN of any other key than Escape and q: the key is handled,
\* then the file at index is drawn (line 272).
KeyDown ==
    /\ pc = "wait"
    /\ \E key \in Keys, generic_ok \in BOOLEAN, limit \in Scales :
           /\ index' = IndexAfter(key)
           /\ draw(IndexAfter(key), ScaleAfter(key), generic_ok, limit)
    /\ UIFrame

Next ==
    \/ FirstDraw
    \/ Quit
    \/ VideoResize
    \/ KeyDown

Spec == Init /\ [][Next]_vars

(***************************************************************************)
(* Properties of load_pgm and load_image, checked under PgmSpec.           *)
(***************************************************************************)
\* A file whose header is a magic token P2 or P5 first (after blanks at
\* most), then width, height and max value, each positive, with whitespace
\* and comments between them.
WellFormed(in) ==
    /\ \A i \in 1..Len(in.prefix) : in.prefix[i] \in WHITESPACE
    /\ in.magic \in {P2, P5}
    /\ \A k \in 1..3 : in.seps[k] # <<>> /\ SepOK(in.seps[k], 1, FALSE)
    /\ in.size[1] > 0 /\ in.size[2] > 0 /\ in.max_value > 0

Pixels(in) == in.size[1] * in.size[2]

\* Two bytes as one sample in the byte order little_endian names.
SampleOf(first, second, le) ==
    IF le THEN first + 256 * second ELSE 256 * first + second

\* What of a load_pgm result a caller can see of the image.
Decoded(r) == <<r.kind, r.size, r.max_value, r.samples, r.data>>

\* C1: a P5 file with a valid header, max_value > 255 and a body of exactly
\* 2*width*height bytes, whatever their values (here: of samples up to
\* max_value), is decoded: load_pgm returns a surface and hands width*height
\* samples to the mapper, sample i built from body bytes 2i and 2i+1.
C1_ExactBodyDecodes ==
    (called /\ WellFormed(input) /\ input.magic = P5 /\ input.max_value > 255
        /\ Len(input.body) = 2 * Pixels(input)
        /\ \A i \in 1..Pixels(input) :
               SampleOf(input.body[2 * i - 1], input.body[2 * i], little_endian)
                   <= input.max_value)
    => /\ outcome.pgm.kind = "Surface"
       /\ outcome.pgm.mapper_called
       /\ Len(outcome.pgm.samples) = Pixels(input)
       /\ \A i \in 1..Len(outcome.pgm.samples) :
              outcome.pgm.samples[i] =
                  SampleOf(input.body[2 * i - 1], input.body[2 * i], little_endian)

\* C2: for a file with a valid P2 or P5 header and max_value <= 255,
\* load_pgm returns None, decodes no sample and does not call the mapper,
\* and load_image goes on to pygame.image.load.
C2_EightBitIsLeftToPygame ==
    (called /\ WellFormed(input) /\ input.max_value <= 255)
    => /\ outcome.pgm.kind = "None"
       /\ ~outcome.pgm.mapper_called
       /\ outcome.pgm.samples = <<>> /\ outcome.pgm.data = <<>>
       /\ outcome.generic_called
       /\ outcome.result \in {"generic_surface", "SystemExit"}

C2_Witness ==
    /\ called /\ WellFormed(input) /\ input.magic = P5 /\ input.max_value = 255
    /\ outcome.pgm.matched /\ outcome.pgm.max_value = 255
    /\ outcome.generic_called /\ outcome.result = "generic_surface"

\* The first whitespace-delimited token of a file, comments left out; <<>>
\* when there is none.
FirstToken(contents) ==
    LET tokens == split(StripComments(contents, 1, FALSE))
    IN  IF tokens = <<>> THEN <<>> ELSE tokens[1]

\* C3: a file whose first whitespace-delimited token is not exactly P2 or
\* P5 makes load_pgm return None, whatever follows.
C3_OtherFirstTokenIsNotPgm ==
    (called /\ FirstToken(file_contents) \notin {P2, P5})
    => outcome.pgm.kind = "None"

\* C4: a 16-bit PGM file with comments between its header tokens, with any
\* whitespace around each comment, decodes to what the file without the
\* comments decodes to.
C4_CommentsDoNotChangeTheImage ==
    (called /\ WellFormed(input) /\ input.max_value > 255)
    => Decoded(outcome.pgm)
           = Decoded(load_pgm(Assemble(Stripped(input)), little_endian, byteorder))

\* C6: every sample load_pgm decodes from a P5 body (raw_data, the bytes
\* after the header it matched) is its two bytes read in the byte order
\* little_endian names, on a little-endian and on a big-endian host.
C6_SamplesAreInTheConfiguredOrder ==
    (called /\ outcome.pgm.matched /\ outcome.pgm.magic_id = P5
        /\ outcome.pgm.mapper_called)
    => /\ 2 * Len(outcome.pgm.samples) <= Len(outcome.pgm.raw_data)
       /\ \A i \in 1..Len(outcome.pgm.samples) :
              outcome.pgm.samples[i] =
                  SampleOf(outcome.pgm.raw_data[2 * i - 1],
                           outcome.pgm.raw_data[2 * i], little_endian)

C6_Witness ==
    /\ called /\ outcome.pgm.magic_id = P5 /\ outcome.pgm.kind = "Surface"
    /\ little_endian /\ byteorder = "big"
    /\ outcome.pgm.raw_data[1] # outcome.pgm.raw_data[2]
    /\ outcome.pgm.samples = <<SampleOf(0, 49, TRUE)>>

\* C7: when load_pgm reads a P5 header with max_value > 255 and fewer than
\* 2*width*height bytes follow it, it ends in a ValueError, which load_image
\* does not catch; and no file put together with a body that short comes
\* back as a surface.
C7_TruncatedBodyIsAnError ==
    /\ (called /\ outcome.pgm.matched /\ outcome.pgm.magic_id = P5
           /\ outcome.pgm.max_value > 255
           /\ Len(outcome.pgm.raw_data)
                  < 2 * outcome.pgm.size[1] * outcome.pgm.size[2])
       => /\ outcome.pgm.kind = "ValueError"
          /\ outcome.result = "ValueError"
          /\ ~outcome.generic_called
    /\ (called /\ WellFormed(input) /\ input.magic = P5 /\ input.max_value > 255
           /\ Len(input.body) < 2 * Pixels(input))
       => outcome.result # "pgm_surface"

C7_Witness ==
    /\ called /\ WellFormed(input) /\ input.magic = P5 /\ input.max_value > 255
    /\ Len(input.body) = 2 /\ Pixels(input) = 2
    /\ outcome.pgm.mapper_called /\ Len(outcome.pgm.samples) = 1
    /\ Len(outcome.pgm.data) = 3
    /\ outcome.pgm.kind = "ValueError"

\* C8: a P2 file with max_value > 255 whose body holds more than
\* width*height integers decodes to the first width*height of them, as the
\* file without the others does.
C8_ExtraTokensAreIgnored ==
    (called /\ WellFormed(input) /\ input.magic = P2 /\ input.max_value > 255
        /\ Len(split(input.body)) > Pixels(input)
        /\ \A i \in 1..Len(split(input.body)) :
               /\ IsIntLiteral(split(input.body)[i])
               /\ int_token(split(input.body)[i]) \in 0..input.max_value)
    => /\ outcome.pgm.kind = "Surface"
       /\ outcome.pgm.samples =
              [i \in 1..Pixels(input) |-> int_token(split(input.body)[i])]
       /\ outcome.pgm.data = grayscale_gradient(outcome.pgm.samples, input.max_value)

(***************************************************************************)
(* Properties of rainbow_gradient, checked under GradientSpec.             *)
(***************************************************************************)
\* max(0, floor(255 * num / max_value)) in exact arithmetic.
ExactChannel(num, max_value) == Max(0, num \div max_value)

Failures == {"ValueError", "SystemExit"}

\* C9, as claimed: a load that fails does not end the session; the loop
\* still waits for the next event.
C9_FailedLoadKeepsTheLoop ==
    last_draw.load \in Failures => pc = "wait"

\* C9, amended: a load that fails ends the session.  When load_image raises
\* (the ValueError of load_pgm, or SystemExit for a file pygame rejects),
\* run_user_interface is left and handles no further event; it waits for
\* events only while the last load succeeded, the window then showing the
\* file at index.
C9_FailedLoadEndsTheSession ==
    /\ last_draw.load \in Failures <=> pc = "exited"
    /\ pc = "exited" => ~ENABLED Next
    /\ pc = "wait" => /\ screen = image_surface
                      /\ image_surface.kind # "none"
                      /\ image_surface.of = index

C9_Witness ==
    /\ pc = "exited" /\ last_draw.load = "SystemExit"
    /\ index = 2 /\ screen.kind = "pgm" /\ screen.of = 1

\* The largest scale among before, before/2, ... above 1 at which scaling
\* succeeds, or 1.
LargestSucceeding(before, limit) ==
    LET ok == {s \in Scales : s > 1 /\ s <= before /\ ScaleSucceeds(s, limit)}
    IN  IF ok = {} THEN 1 ELSE CHOOSE s \in ok : \A other \in ok : other <= s

RECURSIVE TwoToThe(_)
TwoToThe(n) == IF n = 0 THEN 1 ELSE 2 * TwoToThe(n - 1)

\* C10: the scale is always a power of two from 1 to 1024; when draw has
\* returned, the scale is the largest of the scale it was called at, half
\* of it, a quarter, ... at which scaling succeeded, or 1, reached in one
\* halving per failure, and the image is scaled by it.
C10_ScaleIsCapped ==
    /\ scale \in Scales
    /\ last_draw.load \in {"pgm_surface", "generic_surface"}
       => /\ scale = LargestSucceeding(last_draw.before, last_draw.limit)
          /\ scale * TwoToThe(last_draw.tries) = last_draw.before
          /\ image_surface.scaled = scale
          /\ scale > 1 => ScaleSucceeds(scale, last_draw.limit)

C10_Witness ==
    /\ pc = "wait" /\ last_draw.before = MAX_SCALE /\ last_draw.tries = 2
    /\ scale * 4 = MAX_SCALE /\ image_surface.scaled = scale
====
